---- MODULE Spec2Model ----
(***************************************************************************)
(* Model of the PneumaticsApp piston cycling controller (src/app.py,       *)
(* class PistonWorker), the GPIO port it drives (src/gpio_driver.py), the  *)
(* DAC calibration pipeline (src/i2c_driver.py), and the request contexts  *)
(* that call the controller: directly (Spec, ConcSpec) or through the      *)
(* route handlers of src/app.py with the persisted state (ApiSpec).        *)
(*                                                                         *)
(* Every `with self._lock:` block of the source is one atomic action: the  *)
(* blocks never wait inside the lock.  The threading.Event objects         *)
(* (_pause_evt, _stop_evt) and self.thread are read and written without    *)
(* the lock, so every access to them is a step of its own.  Wall-clock     *)
(* time is counted in ticks: a phase wait of _sleep_checking holds the     *)
(* ticks left until its deadline, and Tick lets time pass for every wait   *)
(* at once, paused or not, as time.time() does.                            *)
(***************************************************************************)
EXTENDS Integers, FiniteSets, Sequences, TLC

\* ------------------------------------------------------------------ bounds
NReq == 2          \* concurrent request contexts
MaxThreads == 2    \* Thread objects that exist at the same time
MaxTime == 1       \* longest time_on / time_off, in ticks
MaxCycles == 2     \* largest cycle target a call passes
MaxCount == 3      \* cap of current_cycle (unbounded runs)

Reqs == 1..NReq
Threads == 1..MaxThreads
Times == 0..MaxTime
Cycles == 0..MaxCycles

\* ------------------------------------------------------- program constants
Pistons == {"piston1", "piston2"}
\* the pistons whose controller the request contexts of Spec drive
Driven == {"piston1"}

None == "None"

VARIABLES
    time_on,        \* [piston -> ticks]      PistonWorker.time_on
    time_off,       \* [piston -> ticks]      PistonWorker.time_off
    current_cycle,  \* [piston -> Nat]        PistonWorker.current_cycle
    total_cycles,   \* [piston -> Nat]        PistonWorker.total_cycles
    running,        \* [piston -> BOOLEAN]    PistonWorker.running
    pause_evt,      \* [piston -> BOOLEAN]    PistonWorker._pause_evt
    stop_evt,       \* [piston -> BOOLEAN]    PistonWorker._stop_evt
    thread,         \* [piston -> 0 or a Thread]  PistonWorker.thread (0: None)
    level,          \* [piston -> BOOLEAN]    level of the piston's valve pin
    wk,             \* [Thread -> record]     the Thread objects and their position in _run
    req,            \* [Req -> record]        the request contexts and their position
    hist,           \* [piston -> record]     history: which calls were made, and in which situation
    store,          \* [piston -> record]     the persisted state load_state / save_state keep
    dac,            \* [piston -> code]       the code last written to the piston's DAC channel
    api,            \* [Req -> record]        the request handlers and their position
    lock,           \* [piston -> 0 or a Req] PistonWorker._lock: 0 free, else held by a status call
    stat,           \* [Req -> record]        the status() calls and their position
    calc,           \* record                 a call of a calibration function: argument and result
    port            \* record                 GPIOController: its fields, the set() calls in progress, and what was done to each pin

vars == <<time_on, time_off, current_cycle, total_cycles, running, pause_evt,
          stop_evt, thread, level, wk, req, hist, store, dac, api, lock, stat, calc, port>>

\* what the start, pause, resume, reset and update calls and the workers
\* leave alone
auxVars == <<lock, stat, calc, port>>

\* everything but level and the port
appCore == <<time_on, time_off, current_cycle, total_cycles, running, pause_evt,
             stop_evt, thread, wk, req, hist, store, dac, api, lock, stat, calc>>

\* everything but calc
appVars == <<time_on, time_off, current_cycle, total_cycles, running, pause_evt,
             stop_evt, thread, level, wk, req, hist, store, dac, api, lock, stat, port>>

\* what only the request handlers write
ioVars == <<store, dac, api>>

ctlVars == <<time_on, time_off, current_cycle, total_cycles, running,
             pause_evt, stop_evt, thread>>

\* ------------------------------------------------------------ Thread objects
\* pc of a Thread object:
\*   free      no such object
\*   created   threading.Thread(...) constructed, start() not called
\*   starting  started, before `with self._lock: self.running = True`
\*   loop      at `while not self._stop_evt.is_set()`
\*   check     at the locked done / t_on / t_off block
\*   on        at gpio.set(pin, True)
\*   off       at gpio.set(pin, False)
\*   sc_time   in _sleep_checking, at `while time.time() < end`
\*   sc_poll   in _sleep_checking, at the stop check and the pause loop
\*   inc       at the locked `self.current_cycle += 1`
\*   fin       in finally, at gpio.set(pin, False)
\*   fin_run   in finally, at the locked `self.running = False`
\*   exiting   _run has returned, the thread has not yet ended
\*   dead      the thread has ended (is_alive() is False)
FreeSlot == [pc |-> "free", piston |-> None, t_on |-> 0, t_off |-> 0,
             rem |-> 0, phase |-> None]

NewThread(p) == [FreeSlot EXCEPT !.pc = "created", !.piston = p]

DeadThread(p) == [FreeSlot EXCEPT !.pc = "dead", !.piston = p]

\* threading.Thread.is_alive()
IsAlive(w) == w.pc \notin {"free", "created", "dead"}

\* self.thread and self.thread.is_alive()
ThreadAlive(p) == thread[p] # 0 /\ IsAlive(wk[thread[p]])

\* an idle request context
IdleReq == [pc |-> "idle", piston |-> None, jt |-> 0, ctx |-> None]

\* A Thread object that nothing refers to and that does not run is garbage.
Referenced(t, th, rq) ==
    \/ \E p \in Pistons : th[p] = t
    \/ \E r \in Reqs : rq[r].jt = t

Gc(w, th, rq) ==
    [t \in Threads |->
        IF w[t].pc \in {"created", "dead"} /\ ~Referenced(t, th, rq)
        THEN FreeSlot ELSE w[t]]

\* the Thread objects once self.thread of piston p is about to be replaced
Dropped(p) == Gc(wk, [thread EXCEPT ![p] = 0], req)

\* the slot the new Thread object of piston p takes
FreeThreads(p) == {t \in Threads : Dropped(p)[t].pc = "free"}
Alloc(p) == CHOOSE t \in FreeThreads(p) : \A u \in FreeThreads(p) : t <= u

\* ---------------------------------------------------------------- history
\* hist records, for the properties, what the callers did; the program never
\* reads it.
\*   run    the last of start / reset / update and the situation of the call:
\*            none           no such call yet
\*            starting       start called, its locked block not yet run
\*            idle_start     start, called with no background execution alive
\*            done_start     start, called with running = False while the worker
\*                           that completed the run of an idle_start has
\*                           returned from _run and its thread has not ended
\*            idlerep_start  start, called with running = False and a thread
\*                           alive in any other way
\*            live_start     start, called with running = True and a thread alive
\*            resetting      reset called and not yet returned
\*            reset          reset has returned
\*            shrink         update set the target to 0 < target < current_cycle
\*                           with a background execution alive
\*            update         any other update
\*            dirty          the call overlapped another start or reset
\*   n      the cycle target of that start
\*   pz     the last of pause / resume:
\*            none, held (pause returned while the worker was in a phase wait),
\*            idle (pause returned with no background execution alive),
\*            idle_started (idle, then start was called)
\*   highs  the times the output was set HIGH since an idle_start
\*   late   the threads that incremented current_cycle since a shrink
\*   over   a thread incremented current_cycle twice since a shrink
NoHist == [run |-> "none", n |-> 0, pz |-> "none", highs |-> 0, late |-> {},
           over |-> FALSE, started |-> FALSE]

\* a start or a reset of piston p is between its call and its return
InFlight(p) == \E r \in Reqs : req[r].pc # "idle" /\ req[r].piston = p

\* the threads of piston p that are alive
Executions(p) == {t \in Threads : wk[t].piston = p /\ IsAlive(wk[t])}

\* the situation a start / reset / update of piston p is called in
CallCtx(p) ==
    IF InFlight(p) THEN "dirty"
    ELSE IF Executions(p) = {} THEN "idle"
    ELSE IF running[p] THEN "live"
    ELSE IF /\ \A t \in Executions(p) : wk[t].pc = "exiting"
            /\ hist[p].run = "idle_start"
            /\ 0 < hist[p].n /\ current_cycle[p] = hist[p].n
         THEN "done"
    ELSE "idlerep"

\* a call that overlaps the calls in flight makes them overlapped calls too
Overlap(rq, p) ==
    [r \in Reqs |-> IF rq[r].pc # "idle" /\ rq[r].piston = p
                    THEN [rq[r] EXCEPT !.ctx = "dirty"] ELSE rq[r]]

\* hist after a start / reset / update of piston p recorded as `run`
Ran(p, run, n) ==
    [hist EXCEPT ![p].run = run, ![p].n = n, ![p].highs = 0, ![p].late = {},
                 ![p].over = FALSE]

\* the worker of self.thread is in a phase wait, and is the only execution
InPhase(p) ==
    /\ thread[p] # 0
    /\ wk[thread[p]].pc \in {"sc_time", "sc_poll"}
    /\ Executions(p) = {thread[p]}
    /\ ~stop_evt[p]

\* ------------------------------------------------- DAC calibration pipeline
\* Pressures are in thousandths of a psi, voltages in volts.  A value the
\* source computes as a float is kept exact, as a fraction num / den.
GP8403_MIN_VOLTAGE == 0
GP8403_MAX_VOLTAGE == 10
GP8403_MIN_PRESSURE == 0
GP8403_MAX_PRESSURE == 130534
GP8403_MAX_CODE == 4095

\* _clamp(value, minimum, maximum) = max(minimum, min(maximum, value))
Clamp(value, minimum, maximum) ==
    LET low == IF maximum < value THEN maximum ELSE value IN
    IF minimum > low THEN minimum ELSE low

\* pressure_to_voltage(pressure_psi) with GP8403_MIN_PRESSURE = pmin and
\* GP8403_MAX_PRESSURE = pmax: the voltage as a fraction, or the exception
\* the division raises
PressureToVoltageOver(pressure, pmin, pmax) ==
    LET p == Clamp(pressure, pmin, pmax)
        span == pmax - pmin IN
    IF span = 0 THEN [err |-> "ZeroDivisionError", num |-> 0, den |-> 1]
    ELSE [err |-> None,
          num |-> GP8403_MIN_VOLTAGE * span
                    + (p - pmin) * (GP8403_MAX_VOLTAGE - GP8403_MIN_VOLTAGE),
          den |-> span]

\* pressure_to_voltage(pressure_psi), as a fraction
PressureToVoltage(pressure) ==
    LET v == PressureToVoltageOver(pressure, GP8403_MIN_PRESSURE, GP8403_MAX_PRESSURE) IN
    [num |-> v.num, den |-> v.den]

\* round(num / den) of Python 3: to the nearest integer, a tie to the even one
Round(num, den) ==
    LET q == num \div den
        r == num % den IN
    IF 2 * r < den THEN q
    ELSE IF 2 * r > den THEN q + 1
    ELSE IF q % 2 = 0 THEN q ELSE q + 1

RECURSIVE Gcd(_, _)
Gcd(a, b) == IF b = 0 THEN a ELSE Gcd(b, a % b)

\* scale = GP8403_MAX_CODE / (GP8403_MAX_VOLTAGE - GP8403_MIN_VOLTAGE), in
\* lowest terms
Scale ==
    LET n == GP8403_MAX_CODE
        d == GP8403_MAX_VOLTAGE - GP8403_MIN_VOLTAGE IN
    [num |-> n \div Gcd(n, d), den |-> d \div Gcd(n, d)]

\* faulty variant of VoltageToCode: nothing is clamped
VoltageToCodeUnclamped(voltage) ==
    Round((voltage.num - GP8403_MIN_VOLTAGE * voltage.den) * Scale.num,
          voltage.den * Scale.den)

\* voltage_to_code(voltage) of a voltage given as a fraction
VoltageToCode(voltage) ==
    LET low == GP8403_MIN_VOLTAGE * voltage.den
        high == GP8403_MAX_VOLTAGE * voltage.den
        v == Clamp(voltage.num, low, high)
        code == Round((v - low) * Scale.num, voltage.den * Scale.den) IN
    Clamp(code, 0, GP8403_MAX_CODE)

\* set_pressure(channel, pressure_psi): the code written to the channel
PressureToCode(pressure) == VoltageToCode(PressureToVoltage(pressure))

\* ------------------------------------------------------- persisted state
\* the record load_state() returns for a piston that was never started
StoreInit ==
    [time_on |-> 0, time_off |-> 0, max_cycles |-> 0, current_cycle |-> 0,
     running |-> FALSE, paused |-> FALSE, desired_pressure |-> 0]

\* load_state(): the whole persisted state, as one atomic read
LoadState == store

\* save_state(state): the whole persisted state replaced, as one atomic write
SaveState(state) == store' = state

\* --------------------------------------------------------- request handlers
\* desired_pressure of a request body: absent, not a number, or a number
NoPressure == [kind |-> "none", v |-> 0]
TextPressure == [kind |-> "text", v |-> 0]
Psi(v) == [kind |-> "num", v |-> v]

\* the largest desired pressure the handlers accept (130.0)
API_MAX_PRESSURE == 130000

\* float(desired_pressure) succeeds and 0.0 <= value <= 130.0
PressureOk(dp) == dp.kind = "num" /\ 0 <= dp.v /\ dp.v <= API_MAX_PRESSURE

\* pc of a handler:
\*   idle     no request being handled; resp is the status of the last response
\*   call     the body is validated, the controller method is about to be called
\*   in_call  inside the controller method
\*   save     the persisted state is loaded and changed in `st`, not yet saved
\* pre holds time_on, time_off and total_cycles of the piston as they were
\* when the start or update request arrived.
IdleApi == [pc |-> "idle", op |-> None, piston |-> None, t_on |-> <<>>,
            t_off |-> <<>>, cyc |-> <<>>, st |-> <<>>, resp |-> 0, pre |-> <<>>]

\* the worker parameters of piston p
Params(p) == IF p \in Pistons THEN <<time_on[p], time_off[p], total_cycles[p]>>
             ELSE <<>>

\* return jsonify(...), code; of a rejected request, and of one that named no
\* piston of the fixed set, the piston and pre are kept until the next request
\* arrives
Respond(a, code) ==
    IF code = 400 \/ a.piston \notin Pistons THEN [IdleApi EXCEPT !.piston = a.piston, !.pre = a.pre, !.resp = code]
    ELSE [IdleApi EXCEPT !.resp = code]

\* context r enters a controller method: its handler, if one is calling
Called(r) == [api EXCEPT ![r].pc = IF @ = "call" THEN "in_call" ELSE @]

\* the controller method raised: the handler of context r answers 500
Raised(r) == [api EXCEPT ![r] = IF @.pc = "in_call" THEN Respond(@, 500) ELSE @]

\* ------------------------------------------------------------ the lock
\* with self._lock: a block that is entered and left within one step is
\* entered when the lock is free
LockFree(p) == lock[p] = 0

\* pc of a status() call:
\*   idle       no call
\*   q_running  the lock is taken, self.running is read next
\*   q_paused   self._pause_evt.is_set() is read next
\*   q_current  self.current_cycle is read next
\*   q_total    self.total_cycles is read next
\*   q_exit     the dict is built, the with block is left next
\* snap is history: the four fields as they were when is_set() was read
IdleStat == [pc |-> "idle", piston |-> None, running |-> FALSE, paused |-> FALSE,
             current_cycle |-> 0, total_cycles |-> 0, snap |-> <<>>]

\* --------------------------------------------------------- GPIOController
\* the threads that call gpio.set: the worker thread of a piston (_run) and a
\* request thread (reset)
PortCallers == {"worker", "request"}

\* pc of a set() call:
\*   idle    no call
\*   check   in _ensure_pin, `pin not in self.active` is tested next
\*   setup   GPIO.setup(pin, GPIO.OUT, initial=GPIO.LOW) is next
\*   add     self.active.add(pin) is next
\*   output  GPIO.output(pin, level) is next
IdleSet == [pc |-> "idle", pin |-> None, high |-> FALSE]

\* GPIOController.__init__; setups, written and late are history: how often
\* each pin was set up, whether a level was written to it, and whether it was
\* set up after a level had been written
PortInit ==
    [active |-> {}, call |-> [c \in PortCallers |-> IdleSet],
     setups |-> [p \in Pistons |-> 0], written |-> [p \in Pistons |-> FALSE],
     late |-> [p \in Pistons |-> FALSE]]

\* ------------------------------------------------------------------- Init
\* the state after the module is loaded and the store holds st: the counters
\* of the workers are seeded from st and the stored pressure is applied
InitCommon(st) ==
    /\ port = PortInit
    /\ lock = [p \in Pistons |-> 0]
    /\ stat = [r \in Reqs |-> IdleStat]
    /\ time_on = [p \in Pistons |-> 0]
    /\ time_off = [p \in Pistons |-> 0]
    /\ store = st
    /\ current_cycle = [p \in Pistons |-> st[p].current_cycle]
    /\ total_cycles = [p \in Pistons |-> st[p].max_cycles]
    /\ dac = [p \in Pistons |-> PressureToCode(st[p].desired_pressure)]
    /\ api = [r \in Reqs |-> IdleApi]
    /\ pause_evt = [p \in Pistons |-> FALSE]
    /\ stop_evt = [p \in Pistons |-> FALSE]
    /\ level = [p \in Pistons |-> FALSE]
    /\ req = [r \in Reqs |-> IdleReq]
    /\ hist = [p \in Pistons |-> NoHist]

\* faulty variant of InitWith: a piston stored as running is resumed
InitResuming(st) ==
    /\ InitCommon(st)
    /\ running = [p \in Pistons |-> st[p].running]
    /\ thread = [p \in Pistons |-> IF p \in Driven /\ st[p].running THEN 1 ELSE 0]
    /\ wk = [t \in Threads |->
               IF t = 1 /\ \E p \in Driven : st[p].running
               THEN [FreeSlot EXCEPT !.pc = "starting",
                                     !.piston = CHOOSE p \in Driven : st[p].running]
               ELSE FreeSlot]

\* PistonWorker.__init__ and the seeding: no thread, running False
InitWith(st) ==
    /\ InitCommon(st)
    /\ running = [p \in Pistons |-> FALSE]
    /\ thread = [p \in Pistons |-> 0]
    /\ wk = [t \in Threads |-> FreeSlot]

\* no calibration function is being called on its own
NoCalc == [fn |-> None, pc |-> "idle", arg |-> <<>>, out |-> <<>>, prev |-> <<>>]

\* the first process start: the store holds its defaults
Init == InitWith([p \in Pistons |-> StoreInit]) /\ calc = NoCalc

\* what the store holds for a driven piston at a later process start
SeedRecords ==
    {[time_on |-> 1, time_off |-> 1, max_cycles |-> c, current_cycle |-> n,
      running |-> b, paused |-> z, desired_pressure |-> 65267] :
        c \in {0, MaxCycles}, n \in {0, 1}, b \in BOOLEAN, z \in BOOLEAN}

\* a process start over a store written by an earlier process
SeededInit ==
    \E rec \in SeedRecords :
        /\ InitWith([p \in Pistons |-> IF p \in Driven THEN rec ELSE StoreInit])
        /\ calc = NoCalc

\* ------------------------------------------------------------ GPIO port
\* GPIOController.set(pin, high) as the controllers see it: one step that
\* leaves the pin at the level written.  Its statements are the steps
\* PortCall .. PinOutput below.
GpioSet(p, high) == level' = [level EXCEPT ![p] = high]

\* The steps of GPIOController.set on a Raspberry Pi (_ON_PI true), one
\* statement at a time.
\* gpio.set(pin, high) is called by thread c
PortCall(c, p, high) ==
    /\ port.call[c].pc = "idle"
    /\ port' = [port EXCEPT !.call[c] = [pc |-> "check", pin |-> p, high |-> high]]
    /\ UNCHANGED <<appCore, level>>

\* _ensure_pin: if _ON_PI and pin not in self.active
EnsureCheck(c) ==
    /\ port.call[c].pc = "check"
    /\ port' = [port EXCEPT !.call[c].pc =
                   IF port.call[c].pin \notin port.active THEN "setup" ELSE "output"]
    /\ UNCHANGED <<appCore, level>>

\* GPIO.setup(pin, GPIO.OUT, initial=GPIO.LOW)
PinSetup(c) ==
    LET p == port.call[c].pin IN
    /\ port.call[c].pc = "setup"
    /\ port' = [port EXCEPT !.call[c].pc = "add", !.setups[p] = @ + 1,
                            !.late[p] = @ \/ port.written[p]]
    /\ level' = [level EXCEPT ![p] = FALSE]
    /\ UNCHANGED appCore

\* self.active.add(pin)
ActiveAdd(c) ==
    /\ port.call[c].pc = "add"
    /\ port' = [port EXCEPT !.call[c].pc = "output",
                            !.active = @ \cup {port.call[c].pin}]
    /\ UNCHANGED <<appCore, level>>

\* GPIO.output(pin, GPIO.HIGH if high else GPIO.LOW); set returns
PinOutput(c) ==
    LET p == port.call[c].pin IN
    /\ port.call[c].pc = "output"
    /\ port' = [port EXCEPT !.call[c] = IdleSet, !.written[p] = TRUE]
    /\ level' = [level EXCEPT ![p] = port.call[c].high]
    /\ UNCHANGED appCore

\* ------------------------------------------------------ PistonWorker._run
\* with self._lock: self.running = True
RunBegin(t) ==
    /\ wk[t].pc = "starting"
    /\ LockFree(wk[t].piston)
    /\ running' = [running EXCEPT ![wk[t].piston] = TRUE]
    /\ wk' = [wk EXCEPT ![t].pc = "loop"]
    /\ UNCHANGED <<auxVars, ioVars, time_on, time_off, current_cycle, total_cycles, pause_evt,
                   stop_evt, thread, level, req, hist>>

\* while not self._stop_evt.is_set():
RunLoop(t) ==
    /\ wk[t].pc = "loop"
    /\ wk' = [wk EXCEPT ![t].pc = IF stop_evt[wk[t].piston] THEN "fin" ELSE "check"]
    /\ UNCHANGED <<auxVars, ioVars, ctlVars, level, req, hist>>

\* faulty variants of Done: the target compared with <, with ==, and without `0 <`
DoneOffByOne(p) == 0 < total_cycles[p] /\ total_cycles[p] < current_cycle[p]
DoneExact(p) == 0 < total_cycles[p] /\ total_cycles[p] = current_cycle[p]
DoneNoZero(p) == total_cycles[p] <= current_cycle[p]

\* done = (0 < self.total_cycles <= self.current_cycle)
Done(p) == 0 < total_cycles[p] /\ total_cycles[p] <= current_cycle[p]

\* the locked block reading done, t_on, t_off; `if done: break`
RunCheck(t) ==
    LET p == wk[t].piston IN
    /\ wk[t].pc = "check"
    /\ LockFree(p)
    /\ wk' = [wk EXCEPT ![t] =
                IF Done(p) THEN [@ EXCEPT !.pc = "fin"]
                ELSE [@ EXCEPT !.pc = "on", !.t_on = time_on[p], !.t_off = time_off[p]]]
    /\ UNCHANGED <<auxVars, ioVars, ctlVars, level, req, hist>>

\* end = time.time() + max(0.0, seconds)
Deadline(seconds) == IF seconds > 0 THEN seconds ELSE 0

\* gpio.set(self.valve_pin, True); then _sleep_checking(t_on) takes its deadline
RunOn(t) ==
    /\ wk[t].pc = "on"
    /\ GpioSet(wk[t].piston, TRUE)
    /\ wk' = [wk EXCEPT ![t].pc = "sc_time", ![t].phase = "on",
                        ![t].rem = Deadline(wk[t].t_on), ![t].t_on = 0]
    /\ hist' = [hist EXCEPT ![wk[t].piston].highs =
                    IF hist[wk[t].piston].run = "idle_start" THEN @ + 1 ELSE @]
    /\ UNCHANGED <<auxVars, ioVars, ctlVars, req>>

\* gpio.set(self.valve_pin, False); then _sleep_checking(t_off) takes its deadline
RunOff(t) ==
    /\ wk[t].pc = "off"
    /\ GpioSet(wk[t].piston, FALSE)
    /\ wk' = [wk EXCEPT ![t].pc = "sc_time", ![t].phase = "off",
                        ![t].rem = Deadline(wk[t].t_off), ![t].t_off = 0]
    /\ UNCHANGED <<auxVars, ioVars, ctlVars, req, hist>>

\* where _run goes when _sleep_checking returns ok
AfterSleep(w, ok) ==
    [w EXCEPT !.pc = IF ~ok THEN "fin" ELSE IF w.phase = "on" THEN "off" ELSE "inc",
              !.rem = 0, !.phase = None, !.t_off = IF ok THEN @ ELSE 0]

\* _sleep_checking: `while time.time() < end`, and after the loop
\* `return not self._stop_evt.is_set()`
SleepTime(t) ==
    /\ wk[t].pc = "sc_time"
    /\ wk' = [wk EXCEPT ![t] =
                IF wk[t].rem > 0 THEN [@ EXCEPT !.pc = "sc_poll"]
                ELSE AfterSleep(@, ~stop_evt[wk[t].piston])]
    /\ UNCHANGED <<auxVars, ioVars, ctlVars, level, req, hist>>

\* faulty variant of SleepPoll: the pause loop does not look at the stop event
SleepPollNoStop(t) ==
    LET p == wk[t].piston IN
    /\ wk[t].pc = "sc_poll"
    /\ ~pause_evt[p]
    /\ wk' = [wk EXCEPT ![t] = IF stop_evt[p] THEN AfterSleep(@, FALSE)
                                ELSE [@ EXCEPT !.pc = "sc_time"]]
    /\ UNCHANGED <<auxVars, ioVars, ctlVars, level, req, hist>>

\* _sleep_checking: `if stop: return False`, then the pause loop
\* `while pause and not stop: time.sleep(0.05)`, then time.sleep(0.02)
SleepPoll(t) ==
    LET p == wk[t].piston IN
    /\ wk[t].pc = "sc_poll"
    /\ \/ /\ stop_evt[p]
          /\ wk' = [wk EXCEPT ![t] = AfterSleep(@, FALSE)]
       \/ /\ ~stop_evt[p] /\ ~pause_evt[p]
          /\ wk' = [wk EXCEPT ![t].pc = "sc_time"]
    /\ UNCHANGED <<auxVars, ioVars, ctlVars, level, req, hist>>

\* a statement of the try block raises: control passes to the finally block
RunFault(t) ==
    /\ wk[t].pc \in {"loop", "check", "on", "off", "sc_time", "sc_poll", "inc"}
    /\ wk' = [wk EXCEPT ![t] = [@ EXCEPT !.pc = "fin", !.rem = 0, !.phase = None,
                                         !.t_on = 0, !.t_off = 0]]
    /\ UNCHANGED <<auxVars, ioVars, ctlVars, level, req, hist>>

\* with self._lock: self.current_cycle += 1
RunInc(t) ==
    LET p == wk[t].piston IN
    /\ wk[t].pc = "inc"
    /\ LockFree(p)
    /\ current_cycle[p] < MaxCount
    /\ current_cycle' = [current_cycle EXCEPT ![p] = @ + 1]
    /\ wk' = [wk EXCEPT ![t].pc = "loop"]
    /\ hist' = IF hist[p].run # "shrink" THEN hist
               ELSE [hist EXCEPT ![p].late = @ \cup {t},
                                 ![p].over = @ \/ t \in hist[p].late]
    /\ UNCHANGED <<auxVars, ioVars, time_on, time_off, total_cycles, running, pause_evt, stop_evt,
                   thread, level, req>>

\* faulty variant of RunFinally: the output is left as it is
RunFinallyKeep(t) ==
    /\ wk[t].pc = "fin"
    /\ wk' = [wk EXCEPT ![t].pc = "fin_run"]
    /\ UNCHANGED <<auxVars, ioVars, ctlVars, level, req, hist>>

\* finally: gpio.set(self.valve_pin, False)
RunFinally(t) ==
    /\ wk[t].pc = "fin"
    /\ GpioSet(wk[t].piston, FALSE)
    /\ wk' = [wk EXCEPT ![t].pc = "fin_run"]
    /\ UNCHANGED <<auxVars, ioVars, ctlVars, req, hist>>

\* finally: with self._lock: self.running = False
RunEnd(t) ==
    /\ wk[t].pc = "fin_run"
    /\ LockFree(wk[t].piston)
    /\ running' = [running EXCEPT ![wk[t].piston] = FALSE]
    /\ wk' = [wk EXCEPT ![t] = [FreeSlot EXCEPT !.pc = "exiting", !.piston = wk[t].piston]]
    /\ UNCHANGED <<auxVars, ioVars, time_on, time_off, current_cycle, total_cycles, pause_evt,
                   stop_evt, thread, level, req, hist>>

\* _run has returned; the thread ends
RunExit(t) ==
    /\ wk[t].pc = "exiting"
    /\ wk' = Gc([wk EXCEPT ![t] = DeadThread(wk[t].piston)], thread, req)
    /\ UNCHANGED <<auxVars, ioVars, ctlVars, level, req, hist>>

\* time passes: every deadline comes one tick closer
Tick ==
    /\ \E t \in Threads : wk[t].rem > 0
    /\ wk' = [t \in Threads |->
                IF wk[t].rem > 0 THEN [wk[t] EXCEPT !.rem = @ - 1] ELSE wk[t]]
    /\ UNCHANGED <<auxVars, ioVars, ctlVars, level, req, hist>>

Worker(t) ==
    \/ RunBegin(t) \/ RunLoop(t) \/ RunCheck(t) \/ RunOn(t) \/ RunOff(t)
    \/ SleepTime(t) \/ SleepPoll(t) \/ RunInc(t) \/ RunFinally(t)
    \/ RunEnd(t) \/ RunExit(t)

\* ------------------------------------------------ PistonWorker.start
\* start(time_on, time_off, cycles) is called: self._stop_evt.clear().
\* The arguments are first read in the locked block, and are drawn there.
CallStart(r, p) ==
    /\ req[r].pc = "idle"
    /\ stop_evt' = [stop_evt EXCEPT ![p] = FALSE]
    /\ req' = [Overlap(req, p) EXCEPT ![r] =
                 [IdleReq EXCEPT !.pc = "s_pause", !.piston = p, !.ctx = CallCtx(p)]]
    /\ hist' = [Ran(p, IF InFlight(p) THEN "dirty" ELSE "starting", 0) EXCEPT
                 ![p].pz = IF @ = "idle" /\ ~InFlight(p) THEN "idle_started" ELSE "none",
                 ![p].started = TRUE]
    /\ api' = Called(r)
    /\ UNCHANGED <<auxVars, store, dac, time_on, time_off, current_cycle, total_cycles, running,
                   pause_evt, thread, level, wk>>

\* faulty variant of StartPauseClear: start leaves the pause flag alone
StartPauseKeep(r) ==
    /\ req[r].pc = "s_pause"
    /\ req' = [req EXCEPT ![r].pc = "s_params"]
    /\ UNCHANGED <<auxVars, ioVars, ctlVars, level, wk, hist>>

\* self._pause_evt.clear()
StartPauseClear(r) ==
    /\ req[r].pc = "s_pause"
    /\ pause_evt' = [pause_evt EXCEPT ![req[r].piston] = FALSE]
    /\ req' = [req EXCEPT ![r].pc = "s_params"]
    /\ UNCHANGED <<auxVars, ioVars, time_on, time_off, current_cycle, total_cycles, running,
                   stop_evt, thread, level, wk, hist>>

\* the value start stores in self.current_cycle ("fresh run")
StartCount(p) == 0

\* with self._lock: time_on, time_off, total_cycles, current_cycle = 0
StartParams(r, on, off, cyc) ==
    LET p == req[r].piston IN
    /\ req[r].pc = "s_params"
    /\ LockFree(p)
    /\ time_on' = [time_on EXCEPT ![p] = on]
    /\ time_off' = [time_off EXCEPT ![p] = off]
    /\ total_cycles' = [total_cycles EXCEPT ![p] = cyc]
    /\ current_cycle' = [current_cycle EXCEPT ![p] = StartCount(p)]
    /\ req' = [req EXCEPT ![r].pc = "s_alive"]
    /\ hist' = IF req[r].ctx = "dirty" THEN hist
               ELSE Ran(p, IF req[r].ctx = "idle" THEN "idle_start"
                           ELSE IF req[r].ctx = "live" THEN "live_start"
                           ELSE IF req[r].ctx = "done" THEN "done_start"
                           ELSE "idlerep_start", cyc)
    /\ UNCHANGED <<auxVars, ioVars, running, pause_evt, stop_evt, thread, level, wk>>

\* if self.thread and self.thread.is_alive(): return
StartAlive(r) ==
    /\ req[r].pc = "s_alive"
    /\ req' = [req EXCEPT ![r] = IF ThreadAlive(req[r].piston) THEN IdleReq
                                 ELSE [@ EXCEPT !.pc = "s_new"]]
    /\ UNCHANGED <<auxVars, ioVars, ctlVars, level, wk, hist>>

\* self.thread = threading.Thread(target=self._run, daemon=True)
StartNew(r) ==
    LET p == req[r].piston IN
    /\ req[r].pc = "s_new"
    /\ FreeThreads(p) # {}
    /\ thread' = [thread EXCEPT ![p] = Alloc(p)]
    /\ wk' = [Dropped(p) EXCEPT ![Alloc(p)] = NewThread(p)]
    /\ req' = [req EXCEPT ![r].pc = "s_go"]
    /\ UNCHANGED <<auxVars, ioVars, time_on, time_off, current_cycle, total_cycles, running,
                   pause_evt, stop_evt, level, hist>>

\* self.thread.start(): the Thread object self.thread names now is started;
\* one that was started before raises RuntimeError
StartGo(r) ==
    LET t == thread[req[r].piston] IN
    /\ req[r].pc = "s_go"
    /\ wk' = IF wk[t].pc = "created" THEN [wk EXCEPT ![t].pc = "starting"] ELSE wk
    /\ req' = [req EXCEPT ![r] = IdleReq]
    /\ hist' = IF wk[t].pc = "created" THEN hist ELSE Ran(req[r].piston, "dirty", 0)
    /\ api' = IF wk[t].pc = "created" THEN api ELSE Raised(r)
    /\ UNCHANGED <<auxVars, store, dac, ctlVars, level>>

\* ------------------------------------------------ PistonWorker.reset
\* reset() is called: self._stop_evt.set()
CallReset(r, p) ==
    /\ req[r].pc = "idle"
    /\ stop_evt' = [stop_evt EXCEPT ![p] = TRUE]
    /\ req' = [Overlap(req, p) EXCEPT ![r] =
                 [IdleReq EXCEPT !.pc = "r_pause", !.piston = p, !.ctx = CallCtx(p)]]
    /\ hist' = [Ran(p, IF InFlight(p) THEN "dirty" ELSE "resetting", 0)
                 EXCEPT ![p].pz = "none"]
    /\ api' = Called(r)
    /\ UNCHANGED <<auxVars, store, dac, time_on, time_off, current_cycle, total_cycles, running,
                   pause_evt, thread, level, wk>>

\* self._pause_evt.clear()
ResetPauseClear(r) ==
    /\ req[r].pc = "r_pause"
    /\ pause_evt' = [pause_evt EXCEPT ![req[r].piston] = FALSE]
    /\ req' = [req EXCEPT ![r].pc = "r_alive"]
    /\ UNCHANGED <<auxVars, ioVars, time_on, time_off, current_cycle, total_cycles, running,
                   stop_evt, thread, level, wk, hist>>

\* if self.thread and self.thread.is_alive():
ResetAlive(r) ==
    /\ req[r].pc = "r_alive"
    /\ req' = [req EXCEPT ![r].pc = IF ThreadAlive(req[r].piston) THEN "r_join"
                                    ELSE "r_gpio"]
    /\ UNCHANGED <<auxVars, ioVars, ctlVars, level, wk, hist>>

\* self.thread.join(timeout=1.0) is entered on the Thread object self.thread
\* names now; joining one that was never started raises RuntimeError
ResetJoin(r) ==
    LET t == thread[req[r].piston] IN
    /\ req[r].pc = "r_join"
    /\ req' = [req EXCEPT ![r] = IF wk[t].pc = "created" THEN IdleReq
                                 ELSE [@ EXCEPT !.pc = "r_wait", !.jt = t]]
    /\ hist' = IF wk[t].pc = "created" THEN Ran(req[r].piston, "dirty", 0) ELSE hist
    /\ api' = IF wk[t].pc = "created" THEN Raised(r) ELSE api
    /\ UNCHANGED <<auxVars, store, dac, ctlVars, level, wk>>

\* join returns: the joined thread has ended
ResetJoined(r) ==
    LET rq == [req EXCEPT ![r] = [@ EXCEPT !.pc = "r_gpio", !.jt = 0]] IN
    /\ req[r].pc = "r_wait"
    /\ ~IsAlive(wk[req[r].jt])
    /\ req' = rq
    /\ wk' = Gc(wk, thread, rq)
    /\ UNCHANGED <<auxVars, ioVars, ctlVars, level, hist>>

\* join returns: the timeout of 1.0 s has passed, the thread is still alive
ResetJoinTimeout(r) ==
    /\ req[r].pc = "r_wait"
    /\ IsAlive(wk[req[r].jt])
    /\ req' = [req EXCEPT ![r] = [@ EXCEPT !.pc = "r_gpio", !.jt = 0]]
    /\ UNCHANGED <<auxVars, ioVars, ctlVars, level, wk, hist>>

\* gpio.set(self.valve_pin, False)
ResetGpio(r) ==
    /\ req[r].pc = "r_gpio"
    /\ GpioSet(req[r].piston, FALSE)
    /\ req' = [req EXCEPT ![r].pc = "r_zero"]
    /\ UNCHANGED <<auxVars, ioVars, ctlVars, wk, hist>>

\* with self._lock: current_cycle = 0, total_cycles = 0, running = False
ResetZero(r) ==
    LET p == req[r].piston IN
    /\ req[r].pc = "r_zero"
    /\ LockFree(p)
    /\ current_cycle' = [current_cycle EXCEPT ![p] = 0]
    /\ total_cycles' = [total_cycles EXCEPT ![p] = 0]
    /\ running' = [running EXCEPT ![p] = FALSE]
    /\ req' = [req EXCEPT ![r] = IdleReq]
    /\ hist' = IF req[r].ctx = "dirty" THEN hist ELSE Ran(p, "reset", 0)
    /\ UNCHANGED <<auxVars, ioVars, time_on, time_off, pause_evt, stop_evt, thread, level, wk>>

\* ------------------------------- PistonWorker.pause, resume, update, status
\* pause(): self._pause_evt.set()
Pause(r, p) ==
    /\ req[r].pc = "idle"
    /\ pause_evt' = [pause_evt EXCEPT ![p] = TRUE]
    /\ hist' = [hist EXCEPT ![p].pz = IF InFlight(p) THEN "none"
                                      ELSE IF Executions(p) = {} THEN "idle"
                                      ELSE IF InPhase(p) THEN "held" ELSE "none"]
    /\ api' = Called(r)
    /\ UNCHANGED <<auxVars, store, dac, time_on, time_off, current_cycle, total_cycles, running,
                   stop_evt, thread, level, wk, req>>

\* resume(): self._pause_evt.clear()
Resume(r, p) ==
    /\ req[r].pc = "idle"
    /\ pause_evt' = [pause_evt EXCEPT ![p] = FALSE]
    /\ hist' = [hist EXCEPT ![p].pz = "none"]
    /\ api' = Called(r)
    /\ UNCHANGED <<auxVars, store, dac, time_on, time_off, current_cycle, total_cycles, running,
                   stop_evt, thread, level, wk, req>>

\* status(): with self._lock: the lock is taken
StatusNoLock(r, p) ==
    /\ stat[r].pc = "idle" /\ req[r].pc = "idle"
    /\ stat' = [stat EXCEPT ![r] = [IdleStat EXCEPT !.pc = "q_running", !.piston = p]]
    /\ UNCHANGED <<ioVars, ctlVars, level, wk, req, hist, lock, calc, port>>

StatusLock(r, p) ==
    /\ stat[r].pc = "idle" /\ req[r].pc = "idle"
    /\ LockFree(p)
    /\ lock' = [lock EXCEPT ![p] = r]
    /\ stat' = [stat EXCEPT ![r] = [IdleStat EXCEPT !.pc = "q_running", !.piston = p]]
    /\ UNCHANGED <<ioVars, ctlVars, level, wk, req, hist, calc, port>>

\* "running": self.running
StatusRunning(r) ==
    /\ stat[r].pc = "q_running"
    /\ stat' = [stat EXCEPT ![r].pc = "q_paused", ![r].running = running[stat[r].piston]]
    /\ UNCHANGED <<ioVars, ctlVars, level, wk, req, hist, lock, calc, port>>

\* "paused": self._pause_evt.is_set()
StatusPaused(r) ==
    LET p == stat[r].piston IN
    /\ stat[r].pc = "q_paused"
    /\ stat' = [stat EXCEPT ![r].pc = "q_current", ![r].paused = pause_evt[p],
                            ![r].snap = <<running[p], pause_evt[p], current_cycle[p],
                                          total_cycles[p]>>]
    /\ UNCHANGED <<ioVars, ctlVars, level, wk, req, hist, lock, calc, port>>

\* "current_cycle": self.current_cycle
StatusCurrent(r) ==
    /\ stat[r].pc = "q_current"
    /\ stat' = [stat EXCEPT ![r].pc = "q_total",
                            ![r].current_cycle = current_cycle[stat[r].piston]]
    /\ UNCHANGED <<ioVars, ctlVars, level, wk, req, hist, lock, calc, port>>

\* "total_cycles": self.total_cycles
StatusTotal(r) ==
    /\ stat[r].pc = "q_total"
    /\ stat' = [stat EXCEPT ![r].pc = "q_exit",
                            ![r].total_cycles = total_cycles[stat[r].piston]]
    /\ UNCHANGED <<ioVars, ctlVars, level, wk, req, hist, lock, calc, port>>

\* the with block is left and the dict returned
StatusExit(r) ==
    /\ stat[r].pc = "q_exit"
    /\ lock' = [lock EXCEPT ![stat[r].piston] = IF @ = r THEN 0 ELSE @]
    /\ stat' = [stat EXCEPT ![r] = IdleStat]
    /\ UNCHANGED <<ioVars, ctlVars, level, wk, req, hist, calc, port>>

\* an optional argument: <<>> is None and leaves the field alone, <<v>> is v
Opt(S) == {<<>>} \cup {<<v>> : v \in S}
Given(new, old) == IF new = <<>> THEN old ELSE new[1]

\* update(time_on=None, time_off=None, cycles=None), one locked block
Update(r, p, on, off, cyc) ==
    /\ req[r].pc = "idle"
    /\ LockFree(p)
    /\ time_on' = [time_on EXCEPT ![p] = Given(on, @)]
    /\ time_off' = [time_off EXCEPT ![p] = Given(off, @)]
    /\ total_cycles' = [total_cycles EXCEPT ![p] = Given(cyc, @)]
    /\ req' = Overlap(req, p)
    /\ hist' = Ran(p, IF InFlight(p) THEN "dirty"
                      ELSE IF /\ cyc # <<>>
                              /\ 0 < cyc[1] /\ cyc[1] < current_cycle[p]
                              /\ Executions(p) # {}
                           THEN "shrink" ELSE "update", 0)
    /\ api' = Called(r)
    /\ UNCHANGED <<auxVars, store, dac, current_cycle, running, pause_evt, stop_evt, thread, level, wk>>

\* ------------------------------------------------- POST /api/piston/start
\* piston_start: the body is read, and its piston, times and cycles are
\* validated.  Its desired_pressure is first looked at after the call, and is
\* drawn there.
ApiStart(r, p, on, off, cyc) ==
    LET a == [IdleApi EXCEPT !.op = "start", !.piston = p, !.t_on = <<on>>,
                             !.t_off = <<off>>, !.cyc = <<cyc>>,
                             !.pre = Params(p)] IN
    /\ api[r].pc = "idle" /\ req[r].pc = "idle"
    /\ api' = [api EXCEPT ![r] =
                 IF p \notin Pistons THEN Respond(a, 400)
                 ELSE IF on < 0 \/ off < 0 \/ cyc <= 0 THEN Respond(a, 400)
                 ELSE [a EXCEPT !.pc = "call"]]
    /\ UNCHANGED <<auxVars, store, dac, ctlVars, level, wk, req, hist>>

\* piston_start with a time_on, time_off or cycles that is no number:
\* float() or int() raises ValueError before the piston is looked at, and the
\* request is answered 500
ApiStartNoNumber(r, p) ==
    LET a == [IdleApi EXCEPT !.op = "start", !.piston = p, !.pre = Params(p)] IN
    /\ api[r].pc = "idle" /\ req[r].pc = "idle"
    /\ api' = [api EXCEPT ![r] = Respond(a, 500)]
    /\ UNCHANGED <<auxVars, store, dac, ctlVars, level, wk, req, hist>>

\* workers[piston].start(time_on, time_off, cycles)
ApiStartCall(r) ==
    /\ api[r].pc = "call" /\ api[r].op = "start"
    /\ CallStart(r, api[r].piston)

\* start has returned: st = load_state(), the run is recorded in st, the
\* desired pressure is validated and written to the DAC
ApiStartLoad(r, dp) ==
    LET a == api[r]
        p == a.piston
        st == [LoadState EXCEPT ![p] =
                 [@ EXCEPT !.time_on = a.t_on[1], !.time_off = a.t_off[1],
                           !.max_cycles = a.cyc[1], !.current_cycle = 0,
                           !.running = TRUE, !.paused = FALSE]] IN
    /\ a.pc = "in_call" /\ a.op = "start" /\ req[r].pc = "idle"
    /\ IF dp.kind = "none"
       THEN /\ api' = [api EXCEPT ![r].pc = "save", ![r].st = <<st>>]
            /\ dac' = dac
       ELSE IF ~PressureOk(dp)
       THEN /\ api' = [api EXCEPT ![r] = Respond(a, 400)]
            /\ dac' = dac
       ELSE /\ api' = [api EXCEPT ![r].pc = "save", ![r].st =
                         <<[st EXCEPT ![p].desired_pressure = dp.v]>>]
            /\ dac' = [dac EXCEPT ![p] = PressureToCode(dp.v)]
    /\ UNCHANGED <<auxVars, store, ctlVars, level, wk, req, hist>>

\* save_state(st); the response is workers[piston].status()
ApiStartSave(r) ==
    /\ api[r].pc = "save" /\ api[r].op = "start"
    /\ SaveState(api[r].st[1])
    /\ api' = [api EXCEPT ![r] = Respond(@, 200)]
    /\ UNCHANGED <<auxVars, dac, ctlVars, level, wk, req, hist>>

\* ------------------------------------------------ POST /api/piston/update
\* a time_on or time_off that is given is negative
BadTime(t) == t # <<>> /\ t[1] < 0

\* piston_update: the body is read, and its piston, times and cycles are
\* validated
ApiUpdate(r, p, on, off, cyc) ==
    LET a == [IdleApi EXCEPT !.op = "update", !.piston = p, !.t_on = on,
                             !.t_off = off, !.cyc = cyc, !.pre = Params(p)] IN
    /\ api[r].pc = "idle" /\ req[r].pc = "idle"
    /\ api' = [api EXCEPT ![r] =
                 IF p \notin Pistons THEN Respond(a, 400)
                 ELSE IF BadTime(on) \/ BadTime(off) THEN Respond(a, 400)
                 ELSE IF cyc # <<>> /\ cyc[1] <= 0 THEN Respond(a, 400)
                 ELSE [a EXCEPT !.pc = "call"]]
    /\ UNCHANGED <<auxVars, store, dac, ctlVars, level, wk, req, hist>>

\* workers[piston].update(time_on=t_on, time_off=t_off, cycles=cyc)
ApiUpdateCall(r) ==
    /\ api[r].pc = "call" /\ api[r].op = "update"
    /\ Update(r, api[r].piston, api[r].t_on, api[r].t_off, api[r].cyc)

\* update has returned: state = load_state(), the fields given are set in
\* state, the desired pressure is validated and written to the DAC
ApiUpdateLoad(r, dp) ==
    LET a == api[r]
        p == a.piston
        st == [LoadState EXCEPT ![p] =
                 [@ EXCEPT !.time_on = Given(a.t_on, @),
                           !.time_off = Given(a.t_off, @),
                           !.max_cycles = Given(a.cyc, @)]] IN
    /\ a.pc = "in_call" /\ a.op = "update" /\ req[r].pc = "idle"
    /\ IF dp.kind = "none"
       THEN /\ api' = [api EXCEPT ![r].pc = "save", ![r].st = <<st>>]
            /\ dac' = dac
       ELSE IF ~PressureOk(dp)
       THEN /\ api' = [api EXCEPT ![r] = Respond(a, 400)]
            /\ dac' = dac
       ELSE /\ api' = [api EXCEPT ![r].pc = "save", ![r].st =
                         <<[st EXCEPT ![p].desired_pressure = dp.v]>>]
            /\ dac' = [dac EXCEPT ![p] = PressureToCode(dp.v)]
    /\ UNCHANGED <<auxVars, store, ctlVars, level, wk, req, hist>>

\* the flags and the count of status() are mirrored into state; save_state(state)
ApiUpdateSave(r) ==
    LET p == api[r].piston IN
    /\ api[r].pc = "save" /\ api[r].op = "update"
    /\ SaveState([api[r].st[1] EXCEPT ![p] =
                    [@ EXCEPT !.running = running[p], !.paused = pause_evt[p],
                              !.current_cycle = current_cycle[p]]])
    /\ api' = [api EXCEPT ![r] = Respond(@, 200)]
    /\ UNCHANGED <<auxVars, dac, ctlVars, level, wk, req, hist>>

\* ------------------------------------------------- POST /api/piston/reset
\* piston_reset: the body is read and validated
ApiReset(r, p) ==
    LET a == [IdleApi EXCEPT !.op = "reset", !.piston = p] IN
    /\ api[r].pc = "idle" /\ req[r].pc = "idle"
    /\ api' = [api EXCEPT ![r] = IF p \notin Pistons THEN Respond(a, 400)
                                 ELSE [a EXCEPT !.pc = "call"]]
    /\ UNCHANGED <<auxVars, store, dac, ctlVars, level, wk, req, hist>>

\* workers[piston].reset()
ApiResetCall(r) ==
    /\ api[r].pc = "call" /\ api[r].op = "reset"
    /\ CallReset(r, api[r].piston)

\* reset has returned: st = load_state(), the count and the flags are cleared in st
ApiResetLoad(r) ==
    LET p == api[r].piston
        st == [LoadState EXCEPT ![p] =
                 [@ EXCEPT !.current_cycle = 0, !.running = FALSE,
                           !.paused = FALSE]] IN
    /\ api[r].pc = "in_call" /\ api[r].op = "reset" /\ req[r].pc = "idle"
    /\ api' = [api EXCEPT ![r].pc = "save", ![r].st = <<st>>]
    /\ UNCHANGED <<auxVars, store, dac, ctlVars, level, wk, req, hist>>

\* save_state(st); the response is workers[piston].status()
ApiResetSave(r) ==
    /\ api[r].pc = "save" /\ api[r].op = "reset"
    /\ SaveState(api[r].st[1])
    /\ api' = [api EXCEPT ![r] = Respond(@, 200)]
    /\ UNCHANGED <<auxVars, dac, ctlVars, level, wk, req, hist>>

\* ------------------------------------------------------------------ Next
\* the steps of request context r in start calls; the calls draw durations
\* from T and cycle targets from C
Starter(r, T, C) ==
    \/ \E p \in Driven : CallStart(r, p)
    \/ StartPauseClear(r)
    \/ \E on \in T, off \in T, cyc \in C : StartParams(r, on, off, cyc)
    \/ StartAlive(r) \/ StartNew(r) \/ StartGo(r)

\* the steps of request context r in reset calls
Resetter(r) ==
    \/ \E p \in Driven : CallReset(r, p)
    \/ ResetPauseClear(r) \/ ResetAlive(r) \/ ResetJoin(r) \/ ResetJoined(r)
    \/ ResetJoinTimeout(r) \/ ResetGpio(r) \/ ResetZero(r)

\* the update calls of request context r
Updater(r, T, C) ==
    \E p \in Driven, on \in Opt(T), off \in Opt(T), cyc \in Opt(C) :
        Update(r, p, on, off, cyc)

\* the steps of request context r
Request(r, T, C) ==
    \/ Starter(r, T, C)
    \/ Resetter(r)
    \/ \E p \in Driven : Pause(r, p)
    \/ \E p \in Driven : Resume(r, p)
    \/ Updater(r, T, C)

\* One client: the calls come one after the other, each while the workers run.
Next ==
    \/ \E t \in Threads : Worker(t)
    \/ Tick
    \/ Request(1, Times, Cycles)

Spec == Init /\ [][Next]_vars

\* Concurrent request contexts: while context 1 calls start, reset and
\* update, the other contexts call start; the calls overlap each other and
\* the workers.
ConcTimes == {1}
ConcCycles == {1}

ConcNext ==
    \/ \E t \in Threads : Worker(t)
    \/ Tick
    \/ \E r \in Reqs : Starter(r, ConcTimes, ConcCycles)
    \/ Resetter(1)
    \/ Updater(1, ConcTimes, ConcCycles)

ConcSpec == Init /\ [][ConcNext]_vars

\* A client polling status: while context 1 makes its calls one after the
\* other and the workers run, context 2 calls status().
StatusCaller(r) ==
    \/ \E p \in Driven : StatusLock(r, p)
    \/ StatusRunning(r) \/ StatusPaused(r) \/ StatusCurrent(r) \/ StatusTotal(r)
    \/ StatusExit(r)

StatusNext ==
    \/ \E t \in Threads : Worker(t)
    \/ Tick
    \/ Request(1, ConcTimes, ConcCycles)
    \/ StatusCaller(2)

StatusSpec == Init /\ [][StatusNext]_vars

\* A process started over a stored state: one client makes its calls one
\* after the other.
SeededNext ==
    \/ \E t \in Threads : Worker(t)
    \/ Tick
    \/ Request(1, ConcTimes, ConcCycles)

SeededSpec == SeededInit /\ [][SeededNext]_vars

\* voltage_to_code called on its own.  The voltages are fractions over
\* VoltDen: below 0 V, around 0 V, around 5 V, around 10 V and above it, a
\* quarter of a code apart, so that exact codes, ties and values between
\* occur.
VoltDen == 1638
VoltSpread == 6
CodeVolts ==
    {[num |-> VoltDen * c + d, den |-> VoltDen] :
        c \in {GP8403_MIN_VOLTAGE, 5, GP8403_MAX_VOLTAGE}, d \in -VoltSpread..VoltSpread}

CodeInit ==
    /\ InitWith([p \in Pistons |-> StoreInit])
    /\ \E v \in CodeVolts :
          calc = [NoCalc EXCEPT !.fn = "voltage_to_code", !.pc = "input", !.arg = v]

\* code = voltage_to_code(voltage)
CodeApply ==
    /\ calc.fn = "voltage_to_code" /\ calc.pc = "input"
    /\ calc' = [calc EXCEPT !.pc = "done", !.out = VoltageToCode(calc.arg)]
    /\ UNCHANGED appVars

\* the next call, with voltage v; the call before is remembered
CodeAgain(v) ==
    /\ calc.fn = "voltage_to_code" /\ calc.pc = "done"
    /\ calc' = [calc EXCEPT !.pc = "input", !.arg = v, !.out = <<>>,
                            !.prev = [arg |-> calc.arg, out |-> calc.out]]
    /\ UNCHANGED appVars

CodeNext == CodeApply \/ \E v \in CodeVolts : CodeAgain(v)

CodeSpec == CodeInit /\ [][CodeNext]_vars

\* pressure_to_voltage called on its own, over calibrations <<P_min, P_max>>
\* that include the shipped one and spans of zero width
CalSpans ==
    {<<GP8403_MIN_PRESSURE, GP8403_MAX_PRESSURE>>, <<0, 100000>>, <<10000, 110000>>,
     <<0, 0>>, <<50000, 50000>>, <<GP8403_MAX_PRESSURE, GP8403_MAX_PRESSURE>>}
CalPressures ==
    {-1000, 0, 1, 10000, 50000, 65267, 100000, 110000, GP8403_MAX_PRESSURE, 140000}

CalInit ==
    /\ InitWith([p \in Pistons |-> StoreInit])
    /\ \E x \in CalPressures, sp \in CalSpans :
          calc = [NoCalc EXCEPT !.fn = "pressure_to_voltage", !.pc = "input",
                                !.arg = <<x, sp[1], sp[2]>>]

\* voltage = pressure_to_voltage(pressure_psi)
CalApply ==
    /\ calc.fn = "pressure_to_voltage" /\ calc.pc = "input"
    /\ calc' = [calc EXCEPT !.pc = "done", !.out =
                  PressureToVoltageOver(calc.arg[1], calc.arg[2], calc.arg[3])]
    /\ UNCHANGED appVars

\* the next call, with pressure x, under the same calibration
CalAgain(x) ==
    /\ calc.fn = "pressure_to_voltage" /\ calc.pc = "done"
    /\ calc' = [calc EXCEPT !.pc = "input", !.arg[1] = x, !.out = <<>>]
    /\ UNCHANGED appVars

CalNext == CalApply \/ \E x \in CalPressures : CalAgain(x)

CalSpec == CalInit /\ [][CalNext]_vars

\* One client, and workers whose loop may fault at any statement.
FaultNext ==
    \/ \E t \in Threads : Worker(t)
    \/ \E t \in Threads : RunFault(t)
    \/ Tick
    \/ Request(1, Times, Cycles)

FaultSpec == Init /\ [][FaultNext]_vars

\* One client, with the scheduling the threads get: a worker thread that can
\* take a step takes it, time passes, and a reset call that has begun goes on
\* to its return (its join has a timeout).
ResetSteps(r) ==
    \/ ResetPauseClear(r) \/ ResetAlive(r) \/ ResetJoin(r) \/ ResetJoined(r)
    \/ ResetJoinTimeout(r) \/ ResetGpio(r) \/ ResetZero(r)

Fairness ==
    /\ \A t \in Threads : WF_vars(Worker(t))
    /\ WF_vars(Tick)
    /\ WF_vars(ResetSteps(1))

LiveSpec == Init /\ [][SeededNext]_vars /\ Fairness

\* The port on its own: the worker thread and a request thread call set() on
\* the valve pins, in any interleaving of their statements.
PortNext ==
    \E c \in PortCallers :
        \/ \E p \in Pistons, high \in BOOLEAN : PortCall(c, p, high)
        \/ EnsureCheck(c) \/ PinSetup(c) \/ ActiveAdd(c) \/ PinOutput(c)

PortSpec == Init /\ [][PortNext]_vars

\* A reset and a start that overlap.  Context 1 calls reset and context 2
\* calls start: a first start on the idle piston, a reset of the idle piston or
\* of that run, and one start or reset that begins while the other call is
\* in flight.  After the overlap no further call is made.
StartSteps(r, T, C) ==
    \/ StartPauseClear(r)
    \/ \E on \in T, off \in T, cyc \in C : StartParams(r, on, off, cyc)
    \/ StartAlive(r) \/ StartNew(r) \/ StartGo(r)

RaceStart(r, p) ==
    /\ hist[p].run \in {"none", "resetting"}
    /\ CallStart(r, p)

RaceReset(r, p) ==
    /\ hist[p].run \in {"none", "starting", "idle_start"}
    /\ CallReset(r, p)

RaceNext ==
    \/ \E t \in Threads : Worker(t)
    \/ Tick
    \/ \E p \in Driven : RaceReset(1, p)
    \/ ResetSteps(1)
    \/ \E p \in Driven : RaceStart(2, p)
    \/ StartSteps(2, ConcTimes, ConcCycles)

RaceSpec == Init /\ [][RaceNext]_vars

\* Two HTTP clients, one per piston: context 1 sends start and reset
\* requests for piston1 while context 2 sends update requests for piston2;
\* the handlers run at once, and the workers run.
PairPressures == {Psi(65267)}

\* the steps of context r handling update requests for piston p
PairUpdate(r, p) ==
    \/ \E cyc \in ConcCycles : ApiUpdate(r, p, <<>>, <<>>, <<cyc>>)
    \/ ApiUpdateCall(r)
    \/ \E dp \in PairPressures : ApiUpdateLoad(r, dp)
    \/ ApiUpdateSave(r)

\* the steps of context r handling start requests for piston p
PairStart(r, p) ==
    \/ \E on \in ConcTimes, cyc \in ConcCycles : ApiStart(r, p, on, on, cyc)
    \/ ApiStartCall(r)
    \/ StartPauseClear(r)
    \/ StartParams(r, Given(api[r].t_on, 0), Given(api[r].t_off, 0),
                   Given(api[r].cyc, 0))
    \/ StartAlive(r) \/ StartNew(r) \/ StartGo(r)
    \/ ApiStartLoad(r, NoPressure)
    \/ ApiStartSave(r)

\* the steps of context r handling reset requests for piston p
PairReset(r, p) ==
    \/ ApiReset(r, p)
    \/ ApiResetCall(r)
    \/ ResetSteps(r)
    \/ ApiResetLoad(r) \/ ApiResetSave(r)

PairNext ==
    \/ \E t \in Threads : Worker(t)
    \/ Tick
    \/ PairStart(1, "piston1") \/ PairReset(1, "piston1")
    \/ PairUpdate(2, "piston2")

PairSpec == Init /\ [][PairNext]_vars

\* A process started over a store whose count is below its target, stored as
\* running; the request contexts call start at once, context 1 also calls reset,
\* pause and resume, and no context calls update.
CountSeeds ==
    {x \in SeedRecords : /\ x.current_cycle <= x.max_cycles /\ x.current_cycle = 1
                         /\ x.running /\ ~x.paused}

CountInit ==
    \E rec \in CountSeeds :
        /\ InitWith([p \in Pistons |-> IF p \in Driven THEN rec ELSE StoreInit])
        /\ calc = NoCalc

CountNext ==
    \/ \E t \in Threads : Worker(t)
    \/ Tick
    \/ \E r \in Reqs : Starter(r, ConcTimes, ConcCycles)
    \/ Resetter(1)
    \/ \E p \in Driven : Pause(1, p)
    \/ \E p \in Driven : Resume(1, p)

CountSpec == CountInit /\ [][CountNext]_vars

\* One HTTP client: the requests come one after the other, each handled
\* while the workers run.
ApiPistons == Driven \cup {"piston3"}
ApiTimes == {-1, 1}
ApiCycles == {0, 1}
ApiPressures == {NoPressure, TextPressure, Psi(65267), Psi(131000)}

Handler(r) ==
    \/ \E p \in ApiPistons, on \in ApiTimes, off \in ApiTimes, cyc \in ApiCycles :
          ApiStart(r, p, on, off, cyc)
    \/ \E p \in ApiPistons : ApiStartNoNumber(r, p)
    \/ ApiStartCall(r)
    \/ StartPauseClear(r)
    \/ StartParams(r, Given(api[r].t_on, 0), Given(api[r].t_off, 0),
                   Given(api[r].cyc, 0))
    \/ StartAlive(r) \/ StartNew(r) \/ StartGo(r)
    \/ \E dp \in ApiPressures : ApiStartLoad(r, dp)
    \/ ApiStartSave(r)
    \/ \E p \in ApiPistons, on \in Opt(ApiTimes), off \in Opt(ApiTimes),
          cyc \in Opt(ApiCycles) : ApiUpdate(r, p, on, off, cyc)
    \/ ApiUpdateCall(r)
    \/ \E dp \in ApiPressures : ApiUpdateLoad(r, dp)
    \/ ApiUpdateSave(r)
    \/ \E p \in ApiPistons : ApiReset(r, p)
    \/ ApiResetCall(r)
    \/ ResetPauseClear(r) \/ ResetAlive(r) \/ ResetJoin(r) \/ ResetJoined(r)
    \/ ResetJoinTimeout(r) \/ ResetGpio(r) \/ ResetZero(r)
    \/ ApiResetLoad(r) \/ ApiResetSave(r)

ApiNext ==
    \/ \E t \in Threads : Worker(t)
    \/ Tick
    \/ Handler(1)

ApiSpec == Init /\ [][ApiNext]_vars

\* ================================================================ claims
\* the positions of _run inside the try block, before finally
LoopPcs == {"loop", "check", "on", "off", "sc_time", "sc_poll", "inc"}

\* a thread of piston p is started and has not left the loop
Carrying(p) ==
    \E t \in Threads : wk[t].piston = p /\ wk[t].pc \in LoopPcs \cup {"starting"}

\* the run of self.thread is over and no call is in flight
Halted(p) ==
    /\ ~InFlight(p)
    /\ thread[p] # 0
    /\ wk[thread[p]].pc \in {"exiting", "dead"}

\* C1: for each piston at most one background execution is alive at any time,
\* whatever start, pause, resume, update and reset calls overlap.
C1_OneExecution == \A p \in Pistons : Cardinality(Executions(p)) <= 1

\* C2: a start call made while a background execution is alive (running is
\* True) leaves completed_cycles (current_cycle) unchanged.
C2_StartKeepsCount ==
    [][\A r \in Reqs :
          (/\ req[r].pc = "s_params" /\ req'[r].pc = "s_alive"
           /\ req[r].ctx = "live" /\ ThreadAlive(req[r].piston))
          => current_cycle'[req[r].piston] = current_cycle[req[r].piston]]_vars

\* C3: a start(.., N > 0) called while the piston reports IDLE (running is
\* False: no background execution alive, or the worker of the completed run
\* not yet fully exited), once returned and with no later reset or update,
\* has a background execution carrying out the run until completed_cycles
\* reaches N.
C3_IdleStartRuns ==
    \A p \in Pistons :
        (/\ hist[p].run \in {"idle_start", "done_start"}
         /\ hist[p].n > 0
         /\ ~InFlight(p))
        => (current_cycle[p] >= hist[p].n \/ Carrying(p))

\* C4: after reset() has returned and until the next start call, the output
\* is LOW and running is False, also when the join timed out.
C4_ResetForcesOff ==
    \A p \in Pistons :
        (hist[p].run = "reset" /\ ~InFlight(p)) => (~level[p] /\ ~running[p])

\* C5: a run started from IDLE with target N > 0 and no later start, update
\* or reset sets the output HIGH exactly N times, once per counted cycle, and
\* when it has halted running is False, the output is LOW and
\* completed_cycles = N.
C5_ExactlyN ==
    \A p \in Pistons :
        (hist[p].run = "idle_start" /\ hist[p].n > 0) =>
            /\ total_cycles[p] = hist[p].n
            /\ hist[p].highs <= hist[p].n
            /\ current_cycle[p] <= hist[p].highs
            /\ hist[p].highs <= current_cycle[p] + 1
            /\ Halted(p) => /\ current_cycle[p] = hist[p].n
                            /\ hist[p].highs = hist[p].n
                            /\ ~running[p]
                            /\ ~level[p]

\* C5 witness: a run of the largest target has halted on its own
C5_Witness ==
    \E p \in Pistons :
        /\ hist[p].run = "idle_start" /\ hist[p].n = MaxCycles
        /\ Halted(p) /\ hist[p].highs = MaxCycles

\* C6: while the pause flag is set on a live run (pause returned while the
\* worker was in a phase wait; no resume, reset or start since), the output
\* level does not change and completed_cycles is not incremented.
C6_PauseHolds ==
    [][\A p \in Pistons :
          (hist[p].pz = "held" /\ hist'[p].pz = "held")
          => (level'[p] = level[p] /\ current_cycle'[p] = current_cycle[p])]_vars

\* C7 as claimed: after pause() while IDLE and a following start call, the
\* pause flag is still set.
C7_PauseSurvivesStart ==
    \A p \in Pistons :
        (hist[p].pz = "idle_started" /\ ~InFlight(p)) => pause_evt[p]

\* C7 as amended: pause() while IDLE leaves the piston IDLE with the pause
\* flag set, and the following start call clears that flag: once start has
\* returned the flag is not set.
C7_StartClearsPause ==
    \A p \in Pistons :
        /\ hist[p].pz = "idle" =>
              (pause_evt[p] /\ Executions(p) = {} /\ ~running[p] /\ ~level[p])
        /\ (hist[p].pz = "idle_started" /\ ~InFlight(p)) => ~pause_evt[p]

\* C7 witness: pause while IDLE, then start; the launched run is in its ON
\* phase, not held
C7_Witness ==
    \E p \in Pistons :
        /\ hist[p].pz = "idle_started" /\ ~InFlight(p)
        /\ Executions(p) # {} /\ level[p] /\ ~pause_evt[p]

\* C8 as claimed: after update shrank the target below completed_cycles on a
\* live run, completed_cycles is not incremented again.
C8_NoIncAfterShrink ==
    \A p \in Pistons : hist[p].run = "shrink" => hist[p].late = {}

\* C8 as amended: after such an update the done condition holds from then
\* on, and each worker completes at most the ON/OFF pair it has in progress:
\* it increments completed_cycles at most once more and then only checks the
\* loop condition and leaves the loop.
C8_AtMostPairInProgress ==
    \A p \in Pistons :
        hist[p].run = "shrink" =>
            /\ Done(p)
            /\ ~hist[p].over
            /\ \A t \in hist[p].late :
                  wk[t].pc \in {"loop", "check", "fin", "fin_run", "exiting", "dead",
                                "free"}

\* C8 witness: the worker finished the pair in progress after the shrink and
\* has halted
C8_Witness ==
    \E p \in Pistons :
        /\ hist[p].run = "shrink" /\ hist[p].late # {}
        /\ Halted(p) /\ current_cycle[p] > total_cycles[p]

\* C9: with target_cycles = 0 a worker leaves its loop only when the stop
\* event is set, whatever completed_cycles is, and the stop event is set only
\* by a reset call.
C9_UnboundedRun ==
    /\ [][\A t \in Threads :
              (/\ wk[t].pc \in LoopPcs /\ wk'[t].pc = "fin"
               /\ total_cycles[wk[t].piston] = 0)
              => stop_evt[wk[t].piston]]_vars
    /\ [][\A p \in Pistons :
              (~stop_evt[p] /\ stop_evt'[p])
              => \E r \in Reqs : /\ req[r].pc = "idle"
                                 /\ req'[r].pc = "r_pause"
                                 /\ req'[r].piston = p]_vars

\* C9 witness: an unbounded run is still cycling with completed_cycles at
\* the cap
C9_Witness ==
    \E t \in Threads :
        /\ wk[t].pc \in LoopPcs
        /\ total_cycles[wk[t].piston] = 0
        /\ current_cycle[wk[t].piston] = MaxCount
        /\ level[wk[t].piston]

\* C10: a start or update request rejected with a validation error (status
\* 400) never reached the controller: the worker parameters of the piston,
\* the persisted state and the DAC are as they were when the request arrived.
C10_RejectedChangesNothing ==
    \A r \in Reqs :
        (api[r].pc = "idle" /\ api[r].resp = 400 /\ api[r].piston \in Pistons)
        => Params(api[r].piston) = api[r].pre

\* C11: a request that names a piston outside the fixed set is answered 400
\* "Unknown piston", and leaves the controllers, the output levels, the
\* persisted state and the DAC as they were.
C11_UnknownPistonRejected ==
    [][\A r \in Reqs :
          (api'[r] # api[r] /\ api'[r].piston \notin Pistons \cup {None})
          => /\ api'[r].pc = "idle" /\ api'[r].resp = 400
             /\ UNCHANGED <<ctlVars, level, wk, store, dac>>]_vars

\* C12: while a worker is executing its ON/OFF loop, paused or not, the
\* running flag of its piston is true.
C12_RunningWhileLooping ==
    \A t \in Threads : wk[t].pc \in LoopPcs => running[wk[t].piston]

\* the dict a status() call of context r has built
StatusResult(r) ==
    <<stat[r].running, stat[r].paused, stat[r].current_cycle, stat[r].total_cycles>>

\* C13: the four fields a status() call returns are the joint value running,
\* paused, current_cycle and total_cycles held at one instant of the call,
\* the instant the pause flag was read, whatever the worker and the other
\* calls did meanwhile.
C13_StatusSnapshot ==
    \A r \in Reqs : stat[r].pc = "q_exit" => StatusResult(r) = stat[r].snap

\* C13 witness: a status() call is about to return while a worker is in its
\* loop and a pause or resume call has changed the pause flag since the call
\* read it
C13_Witness ==
    \E r \in Reqs :
        /\ stat[r].pc = "q_exit"
        /\ pause_evt[stat[r].piston] # stat[r].paused
        /\ \E t \in Threads : wk[t].pc \in LoopPcs /\ wk[t].piston = stat[r].piston

\* C14: after process start, whatever the store held, and until the first
\* start call is made, the piston has no thread and no execution, its running
\* flag is false and its output is LOW.
C14_NoAutoResume ==
    \A p \in Pistons :
        ~hist[p].started =>
            /\ thread[p] = 0 /\ \A t \in Threads : wk[t].piston # p
            /\ ~running[p] /\ ~level[p]

\* C14 witness: the store says the piston is running with cycles left, the
\* counters are seeded from it, an update or a reset call has been made, and
\* no start call
C14_Witness ==
    \E p \in Driven :
        /\ store[p].running /\ store[p].current_cycle < store[p].max_cycles
        /\ current_cycle[p] = store[p].current_cycle
        /\ total_cycles[p] = store[p].max_cycles
        /\ hist[p].run = "update" /\ ~hist[p].started

\* C15: voltage_to_code gives 0 for 0 V and 4095 for 10 V, gives a code in
\* 0..4095 for every voltage, inside the range or not, and of two voltages
\* the higher one never gets the lower code.
C15_VoltageToCode ==
    (calc.fn = "voltage_to_code" /\ calc.pc = "done") =>
        /\ calc.out \in 0..GP8403_MAX_CODE
        /\ calc.arg.num = GP8403_MIN_VOLTAGE * calc.arg.den => calc.out = 0
        /\ calc.arg.num = GP8403_MAX_VOLTAGE * calc.arg.den => calc.out = GP8403_MAX_CODE
        /\ calc.prev # <<>> =>
              /\ calc.prev.arg.num <= calc.arg.num => calc.prev.out <= calc.out
              /\ calc.prev.arg.num >= calc.arg.num => calc.prev.out >= calc.out

\* C15 witness: a voltage above 10 V was converted after one in mid range
\* that lies halfway between the codes 2048 and 2049
C15_Witness ==
    /\ calc.fn = "voltage_to_code" /\ calc.pc = "done"
    /\ calc.arg.num > GP8403_MAX_VOLTAGE * calc.arg.den
    /\ calc.out = GP8403_MAX_CODE
    /\ calc.prev # <<>>
    /\ calc.prev.arg.num = 5 * VoltDen + 4 /\ calc.prev.out = 2048

\* C16: under a calibration whose span has zero width (P_max = P_min),
\* pressure_to_voltage raises no error and returns V_min for every pressure.
C16_DegenerateSpan ==
    (/\ calc.fn = "pressure_to_voltage" /\ calc.pc = "done"
     /\ calc.arg[2] = calc.arg[3])
    => /\ calc.out.err = None
       /\ calc.out.num = GP8403_MIN_VOLTAGE * calc.out.den

\* C17: whenever no execution of a piston is alive (its run completed, it saw
\* a stop, its loop faulted, or none was started), the output of the piston
\* is LOW and its running flag is false.
C17_IdleOutputLow ==
    \A p \in Pistons : Executions(p) = {} => ~level[p] /\ ~running[p]

\* C17 witness: the thread of a piston has ended with cycles left and no
\* stop requested, that is after a fault, and had driven the output HIGH
C17_Witness ==
    \E p \in Driven :
        /\ thread[p] # 0 /\ wk[thread[p]].pc = "dead" /\ Executions(p) = {}
        /\ ~stop_evt[p] /\ ~InFlight(p)
        /\ current_cycle[p] < total_cycles[p]
        /\ hist[p].run = "idle_start" /\ hist[p].highs > 0

\* a worker is held by the pause flag inside a phase wait
HeldInPhase(t) ==
    /\ wk[t].pc = "sc_poll"
    /\ pause_evt[wk[t].piston] /\ ~stop_evt[wk[t].piston]

\* C18: time spent paused does not advance the phase timer: while a worker
\* is held by the pause flag inside an ON or OFF phase, the wait that remains
\* of the phase stays what it was when the pause took effect.
C18_PauseKeepsRemainder ==
    [][\A t \in Threads :
          (HeldInPhase(t) /\ HeldInPhase(t)') => wk'[t].rem = wk[t].rem]_vars

\* thread t is an execution of piston p that is alive
Executing(t, p) == wk[t].piston = p /\ IsAlive(wk[t])

\* C19: once reset has set the stop signal of a live run, running or paused,
\* anywhere in an ON or OFF phase, and as long as no start call clears the
\* signal, the execution terminates; and a worker that observes the stop
\* signal in a phase wait leaves the wait for the finally block, it does not
\* go on to the next phase.
C19_ResetTerminates ==
    /\ \A t \in Threads, p \in Pistons :
          (Executing(t, p) /\ stop_evt[p]) ~> (~Executing(t, p) \/ ~stop_evt[p])
    /\ [][\A t \in Threads :
            (/\ wk[t].pc \in {"sc_time", "sc_poll"} /\ stop_evt[wk[t].piston]
             /\ wk'[t].pc # wk[t].pc)
            => wk'[t].pc \in {"sc_poll", "fin"}]_vars

\* C19 witness: after a reset call, a worker has left the wait of its ON
\* phase for the finally block, with the output still HIGH
C19_Witness ==
    \E t \in Threads :
        /\ wk[t].pc = "fin" /\ stop_evt[wk[t].piston] /\ level[wk[t].piston]
        /\ hist[wk[t].piston].run \in {"resetting", "reset"}

\* C20: whatever the interleaving of the set() calls of the worker thread and
\* of a request thread, each pin is set up as an output, initially LOW, at
\* most once, and never after a level has been written to it.
C20_PinSetUpOnce ==
    \A p \in Pistons : port.setups[p] <= 1 /\ ~port.late[p]

\* a reset and a start of piston p have overlapped and both have returned
BothReturned(p) == hist[p].run = "dirty" /\ ~InFlight(p)

\* C21: after a reset and a start of one piston that overlapped have both
\* returned, the piston is in a state one of the two orders gives.  Either it
\* is idle with its counters cleared, or one run with the parameters of start
\* is executing and running is true; also allowed here are that run before
\* its first statement, that run completed, and executions that still have
\* the stop signal to observe.
C21_ResetStartSerial ==
    \A p \in Driven :
        BothReturned(p) =>
            \/ /\ Executions(p) = {} /\ ~level[p] /\ ~running[p]
               /\ current_cycle[p] = 0 /\ total_cycles[p] = 0
            \/ /\ Cardinality(Executions(p)) = 1 /\ ~stop_evt[p]
               /\ total_cycles[p] \in ConcCycles
               /\ running[p] \/ \A t \in Executions(p) : wk[t].pc = "starting"
            \/ /\ Executions(p) = {} /\ ~level[p] /\ ~running[p]
               /\ total_cycles[p] \in ConcCycles /\ current_cycle[p] = total_cycles[p]
            \/ /\ Executions(p) # {} /\ stop_evt[p]
               /\ current_cycle[p] = 0 /\ total_cycles[p] = 0

\* C22: a request for one piston never changes the persisted record of the
\* other piston: the save that ends a request leaves the record of every
\* other piston as it was, also when requests for both pistons are handled
\* at once.
C22_OtherRecordKept ==
    [][\A r \in Reqs :
          (api[r].pc = "save" /\ api'[r].pc = "idle")
          => \A q \in Pistons \ {api[r].piston} : store'[q] = store[q]]_vars

\* C23: with no update call, and the store seeded with a count that does not
\* exceed its target, a positive target is never exceeded by the count of
\* completed cycles.
C23_CountWithinTarget ==
    \A p \in Pistons : total_cycles[p] > 0 => current_cycle[p] <= total_cycles[p]

====
